---- MODULE Spec2Model ----
(***************************************************************************)
(* Majority-illusion engine of ba.py (one-way threshold adoption) and      *)
(* experiment.py (reversible majority vote): the illusion detector, the    *)
(* two diffusion loops and the cap-or-fill minority assignment.            *)
(*                                                                         *)
(* A graph is a record [n, edges]: nodes 1..n in the graph's iteration     *)
(* order, edges a set of two-element node sets (undirected, simple,        *)
(* loop-free).  A labeling is a function from nodes to "Red" (Minority) or *)
(* "Blue" (Majority).  Python lists are sequences, Python sets are sets.   *)
(***************************************************************************)
EXTENDS Integers, Sequences, FiniteSets

VARIABLES G, rule, frac, influencers, minority, opinions, gm, illusion_nodes,
          illusion_series, new_op, visited, halt, ret, final, records, pc

vars == <<G, rule, frac, influencers, minority, opinions, gm, illusion_nodes,
          illusion_series, new_op, visited, halt, ret, final, records, pc>>

(***************************************************************************)
(* Bounds of the model.                                                    *)
(***************************************************************************)
MaxN == 4            \* nodes of the graphs the simulations are run on
MaxEdges == 4        \* edges of those graphs
DetMaxN == 5         \* nodes of the graphs of the detector specification
DetMaxEdges == 4     \* edges of those graphs
SyncMaxN == 3        \* nodes of the graphs of the node-by-node specification
AssignMaxN == 5      \* nodes of the graphs of the assignment specification
AssignMaxEdges == 2  \* edges of those graphs
FracDen == 4         \* fractions are k / FracDen (exact as floats for 4)
FracExtra == 2       \* k ranges over -FracExtra .. FracDen + FracExtra

(***************************************************************************)
(* Program constants.                                                      *)
(***************************************************************************)
max_rounds == 50
PhiNum == 1          \* phi = 0.5 = PhiNum / PhiDen
PhiDen == 2

Labels == {"Red", "Blue"}

Nodes(g) == 1 .. g.n

Pairs(n) == {{u, v} : u, v \in 1 .. n} \ {{u} : u \in 1 .. n}

Graphs(maxn, maxe) ==
    UNION {{[n |-> k, edges |-> E] :
               E \in {X \in SUBSET Pairs(k) : Cardinality(X) <= maxe}} :
           k \in 1 .. maxn}

Fracs == {<<k, FracDen>> : k \in (0 - FracExtra) .. (FracDen + FracExtra)}

neighbors(g, v) == {u \in Nodes(g) : {u, v} \in g.edges}

degree(g, v) == Cardinality(neighbors(g, v))

\* sum(opinions[u] == 'Red' for u in nbrs)
red_among(op, nbrs) == Cardinality({u \in nbrs : op[u] = "Red"})

(***************************************************************************)
(* IllusionDetector, experiment.py.                                        *)
(***************************************************************************)
\* sum(op == 'Red' for op in opinions.values()) over the first k nodes
RECURSIVE count_red(_, _)
count_red(op, k) ==
    IF k = 0 THEN 0
    ELSE count_red(op, k - 1) + (IF op[k] = "Red" THEN 1 ELSE 0)

\* global_maj = 'Red' if red > blue else 'Blue'
global_maj(g, op) ==
    LET red == count_red(op, g.n)
        blue == g.n - red
    IN IF red > blue THEN "Red" ELSE "Blue"

\* The loop body without its "if r == b: continue".
illusion_test_no_tie(g, op, gmaj, v) ==
    LET nbrs == neighbors(g, v)
        r == red_among(op, nbrs)
        b == Cardinality(nbrs) - r
    IN IF nbrs = {} THEN FALSE
       ELSE (IF r > b THEN "Red" ELSE "Blue") # gmaj

\* The body of the loop over v: TRUE iff v is appended to the illusion list.
illusion_test(g, op, gmaj, v) ==
    LET nbrs == neighbors(g, v)
        r == red_among(op, nbrs)
        b == Cardinality(nbrs) - r
    IN IF nbrs = {} THEN FALSE
       ELSE IF r = b THEN FALSE
       ELSE (IF r > b THEN "Red" ELSE "Blue") # gmaj

\* for v in G: ... illusion.append(v), over the first k nodes
RECURSIVE illusion_scan(_, _, _, _)
illusion_scan(g, op, gmaj, k) ==
    IF k = 0 THEN <<>>
    ELSE LET prev == illusion_scan(g, op, gmaj, k - 1)
         IN IF illusion_test(g, op, gmaj, k) THEN Append(prev, k) ELSE prev

static_majority_illusion(g, op) ==
    LET gmaj == global_maj(g, op)
    IN <<gmaj, illusion_scan(g, op, gmaj, g.n)>>

(***************************************************************************)
(* IllusionDetector, ba.py.                                                *)
(***************************************************************************)
RECURSIVE ba_count_red(_, _)
ba_count_red(op, k) ==
    IF k = 0 THEN 0
    ELSE ba_count_red(op, k - 1) + (IF op[k] = "Red" THEN 1 ELSE 0)

\* The comparison with >= in place of >.
ba_global_maj_geq(g, op) ==
    LET total_red == ba_count_red(op, g.n)
        total_blue == g.n - total_red
    IN IF total_red >= total_blue THEN "Red" ELSE "Blue"

ba_global_maj(g, op) ==
    LET total_red == ba_count_red(op, g.n)
        total_blue == g.n - total_red
    IN IF total_red > total_blue THEN "Red" ELSE "Blue"

ba_illusion_test(g, op, gmaj, v) ==
    LET nbrs == neighbors(g, v)
        local_red == red_among(op, nbrs)
        local_blue == Cardinality(nbrs) - local_red
    IN IF nbrs = {} THEN FALSE
       ELSE IF local_red = local_blue THEN FALSE
       ELSE (IF local_red > local_blue THEN "Red" ELSE "Blue") # gmaj

RECURSIVE ba_illusion_scan(_, _, _, _)
ba_illusion_scan(g, op, gmaj, k) ==
    IF k = 0 THEN <<>>
    ELSE LET prev == ba_illusion_scan(g, op, gmaj, k - 1)
         IN IF ba_illusion_test(g, op, gmaj, k) THEN Append(prev, k) ELSE prev

ba_static_majority_illusion(g, op) ==
    LET gmaj == ba_global_maj(g, op)
    IN <<gmaj, ba_illusion_scan(g, op, gmaj, g.n)>>

\* The detector of the file the rule lives in.
detect(r, g, op) ==
    IF r = "threshold" THEN ba_static_majority_illusion(g, op)
    ELSE static_majority_illusion(g, op)

(***************************************************************************)
(* The two diffusion rules, one node.                                      *)
(***************************************************************************)
\* The threshold test with >= in place of >.
threshold_adopts_geq(g, op, v) ==
    red_among(op, neighbors(g, v)) * PhiDen >= PhiNum * degree(g, v)

\* ba.py: red_nbrs > phi * G.degree[v]
threshold_adopts(g, op, v) ==
    red_among(op, neighbors(g, v)) * PhiDen > PhiNum * degree(g, v)

\* The threshold rule applied to every node, so that a Red node reverts.
threshold_label_reversible(g, op, v) ==
    IF red_among(op, neighbors(g, v)) * PhiDen > PhiNum * degree(g, v)
    THEN "Red" ELSE "Blue"

\* ba.py: new_op is a copy of opinions; only a Blue node is rewritten.
threshold_label(g, op, v) ==
    IF op[v] = "Blue" /\ threshold_adopts(g, op, v) THEN "Red" ELSE op[v]

\* The vote with a local tie resolved to Blue, as the detector's
\* local majority does.
majority_vote_tie_blue(g, op, v) ==
    LET nbrs == neighbors(g, v)
        r == red_among(op, nbrs)
        b == Cardinality(nbrs) - r
    IN IF nbrs = {} THEN op[v]
       ELSE IF r > b THEN "Red"
       ELSE "Blue"

\* experiment.py: the strict local majority, the old label on a tie or
\* when v has no neighbours.
majority_vote(g, op, v) ==
    LET nbrs == neighbors(g, v)
        r == red_among(op, nbrs)
        b == Cardinality(nbrs) - r
    IN IF nbrs = {} THEN op[v]
       ELSE IF r > b THEN "Red"
       ELSE IF b > r THEN "Blue"
       ELSE op[v]

\* The labeling new_op the loop over the nodes builds from opinions.
threshold_update(g, op) == [v \in Nodes(g) |-> threshold_label(g, op, v)]

majority_update(g, op) == [v \in Nodes(g) |-> majority_vote(g, op, v)]

\* The loop without its break.
no_change_never(nxt, op) == FALSE

\* if new_op == opinions: break
no_change(nxt, op) == nxt = op

(***************************************************************************)
(* dynamic_simulation, one iteration of the loop per step.                 *)
(***************************************************************************)
\* The rest of an iteration once the illusion count is appended and new_op
\* is built: break on no change, else take new_op and leave the loop when
\* range(max_rounds) is exhausted.
FinishRound(series, nxt) ==
    /\ illusion_series' = series
    /\ IF no_change(nxt, opinions)
       THEN /\ opinions' = opinions
            /\ halt' = "converged"
            /\ ret' = <<series, opinions>>
            /\ pc' = "done"
       ELSE /\ opinions' = nxt
            /\ IF Len(series) >= max_rounds
               THEN /\ halt' = "cap"
                    /\ ret' = <<series, nxt>>
                    /\ pc' = "done"
               ELSE /\ pc' = "loop"
                    /\ UNCHANGED <<halt, ret>>

\* main: gm, illusion_nodes = static_majority_illusion(G, opinions_init)
Static ==
    /\ pc = "static"
    /\ LET res == detect(rule, G, opinions)
       IN /\ gm' = res[1]
          /\ illusion_nodes' = res[2]
    /\ pc' = "loop"
    /\ UNCHANGED <<G, rule, frac, influencers, minority, opinions,
                   illusion_series, new_op, visited, halt, ret, final, records>>

\* ba.py dynamic_simulation, one iteration.
ThresholdRound ==
    /\ pc = "loop"
    /\ rule = "threshold"
    /\ Len(illusion_series) < max_rounds
    /\ LET ill == ba_static_majority_illusion(G, opinions)[2]
       IN FinishRound(Append(illusion_series, Len(ill)),
                      threshold_update(G, opinions))
    /\ UNCHANGED <<G, rule, frac, influencers, minority, gm, illusion_nodes,
                   new_op, visited, final, records>>

\* experiment.py dynamic_simulation, one iteration.
MajorityRound ==
    /\ pc = "loop"
    /\ rule = "majority"
    /\ Len(illusion_series) < max_rounds
    /\ LET ill == static_majority_illusion(G, opinions)[2]
       IN FinishRound(Append(illusion_series, Len(ill)),
                      majority_update(G, opinions))
    /\ UNCHANGED <<G, rule, frac, influencers, minority, gm, illusion_nodes,
                   new_op, visited, final, records>>

\* main: the final illusion count is the last entry of the returned series.
ReportFinal ==
    /\ pc = "done"
    /\ final' = ret[1][Len(ret[1])]
    /\ pc' = "reported"
    /\ UNCHANGED <<G, rule, frac, influencers, minority, opinions, gm,
                   illusion_nodes, illusion_series, new_op, visited, halt,
                   ret, records>>

\* The state before main runs one trial on graph g with a labeling op.
Start(g, r, op, at) ==
    /\ G = g
    /\ rule = r
    /\ opinions = op
    /\ influencers = {}
    /\ minority = {}
    /\ gm = "Blue"
    /\ illusion_nodes = <<>>
    /\ illusion_series = <<>>
    /\ new_op = <<>>
    /\ visited = {}
    /\ halt = "none"
    /\ ret = <<>>
    /\ final = 0
    /\ records = <<>>
    /\ pc = at

\* Any graph, any labeling, either file's simulation.
Init ==
    \E g \in Graphs(MaxN, MaxEdges), r \in {"threshold", "majority"} :
        \E op \in [Nodes(g) -> Labels] :
            Start(g, r, op, "static") /\ frac = <<0, 1>>

Next == Static \/ ThresholdRound \/ MajorityRound \/ ReportFinal

Spec == Init /\ [][Next]_vars

(***************************************************************************)
(* The detector alone, on larger graphs.                                   *)
(***************************************************************************)
InitDetect ==
    \E g \in Graphs(DetMaxN, DetMaxEdges), r \in {"threshold", "majority"} :
        \E op \in [Nodes(g) -> Labels] :
            Start(g, r, op, "static") /\ frac = <<0, 1>>

\* The simulation is not run: the trial ends after the static call.
StaticOnly ==
    /\ pc = "static"
    /\ LET res == detect(rule, G, opinions)
       IN /\ gm' = res[1]
          /\ illusion_nodes' = res[2]
    /\ pc' = "detected"
    /\ UNCHANGED <<G, rule, frac, influencers, minority, opinions,
                   illusion_series, new_op, visited, halt, ret, final, records>>

SpecDetect == InitDetect /\ [][StaticOnly]_vars

(***************************************************************************)
(* dynamic_simulation with the loop over the nodes taken one node per      *)
(* step, the nodes visited in any order.                                   *)
(***************************************************************************)
InitSync ==
    \E g \in Graphs(SyncMaxN, MaxEdges), r \in {"threshold", "majority"} :
        \E op \in [Nodes(g) -> Labels] :
            Start(g, r, op, "loop") /\ frac = <<0, 1>>

\* The head of an iteration: the illusion count is appended and new_op
\* starts as a copy of opinions (ba.py) or as the empty dict (experiment.py).
BeginRound ==
    /\ pc = "loop"
    /\ Len(illusion_series) < max_rounds
    /\ illusion_series' =
           Append(illusion_series, Len(detect(rule, G, opinions)[2]))
    /\ new_op' = IF rule = "threshold" THEN opinions
                 ELSE [u \in {} |-> "Blue"]
    /\ visited' = {}
    /\ pc' = "visit"
    /\ UNCHANGED <<G, rule, frac, influencers, minority, opinions, gm,
                   illusion_nodes, halt, ret, final, records>>

\* ba.py, the body of "for v in G.nodes()".
VisitThreshold(v) ==
    /\ pc = "visit"
    /\ rule = "threshold"
    /\ v \in Nodes(G) \ visited
    /\ new_op' = IF opinions[v] = "Blue" /\ threshold_adopts(G, opinions, v)
                 THEN [new_op EXCEPT ![v] = "Red"]
                 ELSE new_op
    /\ visited' = visited \cup {v}
    /\ UNCHANGED <<G, rule, frac, influencers, minority, opinions, gm,
                   illusion_nodes, illusion_series, halt, ret, final,
                   records, pc>>

\* The same body reading the labels already written for the next round.
VisitMajorityInPlace(v) ==
    /\ pc = "visit"
    /\ rule = "majority"
    /\ v \in Nodes(G) \ visited
    /\ LET cur == [u \in Nodes(G) |->
                      IF u \in DOMAIN new_op THEN new_op[u] ELSE opinions[u]]
       IN new_op' = [u \in DOMAIN new_op \cup {v} |->
                        IF u = v THEN majority_vote(G, cur, v) ELSE new_op[u]]
    /\ visited' = visited \cup {v}
    /\ UNCHANGED <<G, rule, frac, influencers, minority, opinions, gm,
                   illusion_nodes, illusion_series, halt, ret, final,
                   records, pc>>

\* experiment.py, the body of "for v in G".
VisitMajority(v) ==
    /\ pc = "visit"
    /\ rule = "majority"
    /\ v \in Nodes(G) \ visited
    /\ new_op' = [u \in DOMAIN new_op \cup {v} |->
                     IF u = v THEN majority_vote(G, opinions, v) ELSE new_op[u]]
    /\ visited' = visited \cup {v}
    /\ UNCHANGED <<G, rule, frac, influencers, minority, opinions, gm,
                   illusion_nodes, illusion_series, halt, ret, final,
                   records, pc>>

\* The tail of an iteration, once every node is visited.
EndRound ==
    /\ pc = "visit"
    /\ visited = Nodes(G)
    /\ FinishRound(illusion_series, new_op)
    /\ UNCHANGED <<G, rule, frac, influencers, minority, gm, illusion_nodes,
                   new_op, visited, final, records>>

NextSync ==
    \/ BeginRound
    \/ \E v \in 1 .. SyncMaxN : VisitThreshold(v)
    \/ \E v \in 1 .. SyncMaxN : VisitMajority(v)
    \/ EndRound

SpecSync == InitSync /\ [][NextSync]_vars

(***************************************************************************)
(* experiment.py, one batch trial: the influencers of the graph, the       *)
(* cap-or-fill minority for one fraction, the static count, the            *)
(* simulation and the trial record.                                        *)
(***************************************************************************)
\* sum(dict(G.degree()).values()) over the first k nodes
RECURSIVE sum_degree(_, _)
sum_degree(g, k) ==
    IF k = 0 THEN 0 ELSE sum_degree(g, k - 1) + degree(g, k)

\* d > 2 * avg_deg with avg_deg = sum / n, cleared of the division
identify_influencers_by_threshold(g) ==
    {v \in Nodes(g) : degree(g, v) * g.n > 2 * sum_degree(g, g.n)}

\* int(p / q): truncation toward zero
int_trunc(p, q) ==
    IF p >= 0 THEN p \div q ELSE 0 - ((0 - p) \div q)

\* target = int(frac * N)
target_of(fr, g) == int_trunc(fr[1] * g.n, fr[2])

\* len(lst[:t]): a negative t counts from the end of the list
slice_len(len, t) ==
    IF t >= 0 THEN (IF t < len THEN t ELSE len)
    ELSE (IF len + t > 0 THEN len + t ELSE 0)

\* set(sorted(infl, key=degree, reverse=True)[:t]): every set the slice can
\* be, whatever order the sort leaves nodes of equal degree in.
top_by_degree(g, infl, t) ==
    {S \in SUBSET infl :
        /\ Cardinality(S) = slice_len(Cardinality(infl), t)
        /\ \A a \in S, b \in infl \ S : degree(g, a) >= degree(g, b)}

\* opinions = {v: 'Red' if v in minority else 'Blue' for v in G}
labeling_of(g, m) == [v \in Nodes(g) |-> IF v \in m THEN "Red" ELSE "Blue"]

InitAssign ==
    \E g \in Graphs(AssignMaxN, AssignMaxEdges), fr \in Fracs :
        /\ Start(g, "majority", <<>>, "identify")
        /\ frac = fr

\* infl_run = identify_influencers_by_threshold(G_run)
Identify ==
    /\ pc = "identify"
    /\ influencers' = identify_influencers_by_threshold(G)
    /\ pc' = "assign"
    /\ UNCHANGED <<G, rule, frac, minority, opinions, gm, illusion_nodes,
                   illusion_series, new_op, visited, halt, ret, final, records>>

\* if icount > target: keep the top-target influencers by degree
AssignCap ==
    /\ pc = "assign"
    /\ Cardinality(influencers) > target_of(frac, G)
    /\ \E S \in top_by_degree(G, influencers, target_of(frac, G)) :
          /\ minority' = S
          /\ opinions' = labeling_of(G, S)
    /\ pc' = "static"
    /\ UNCHANGED <<G, rule, frac, influencers, gm, illusion_nodes,
                   illusion_series, new_op, visited, halt, ret, final, records>>

\* else: all influencers, plus random.sample(rest, extra) when extra > 0
AssignFill ==
    /\ pc = "assign"
    /\ ~(Cardinality(influencers) > target_of(frac, G))
    /\ LET rest == Nodes(G) \ influencers
           extra == target_of(frac, G) - Cardinality(influencers)
       IN /\ extra <= Cardinality(rest)
          /\ \E X \in SUBSET rest :
                /\ Cardinality(X) = (IF extra > 0 THEN extra ELSE 0)
                /\ minority' = influencers \cup X
                /\ opinions' = labeling_of(G, influencers \cup X)
    /\ pc' = "static"
    /\ UNCHANGED <<G, rule, frac, influencers, gm, illusion_nodes,
                   illusion_series, new_op, visited, halt, ret, final, records>>

\* random.sample raises ValueError: the sample is larger than the population
AssignFillFails ==
    /\ pc = "assign"
    /\ ~(Cardinality(influencers) > target_of(frac, G))
    /\ LET rest == Nodes(G) \ influencers
           extra == target_of(frac, G) - Cardinality(influencers)
       IN extra > Cardinality(rest)
    /\ pc' = "aborted"
    /\ UNCHANGED <<G, rule, frac, influencers, minority, opinions, gm,
                   illusion_nodes, illusion_series, new_op, visited, halt,
                   ret, final, records>>

\* records.append({'infl': icount, 'frac': frac, 'static': static_ct,
\*                 'final': seq[-1]})
AppendRecord ==
    /\ pc = "done"
    /\ records' = Append(records,
                         [infl |-> Cardinality(influencers),
                          frac |-> frac,
                          static |-> Len(illusion_nodes),
                          final |-> ret[1][Len(ret[1])]])
    /\ pc' = "recorded"
    /\ UNCHANGED <<G, rule, frac, influencers, minority, opinions, gm,
                   illusion_nodes, illusion_series, new_op, visited, halt,
                   ret, final>>

NextAssign ==
    \/ Identify
    \/ AssignCap
    \/ AssignFill
    \/ AssignFillFails
    \/ Static
    \/ MajorityRound
    \/ AppendRecord

SpecAssign == InitAssign /\ [][NextAssign]_vars

(***************************************************************************)
(* The properties.  They are stated on the graph and the labeling          *)
(* directly, not through the operators above.                              *)
(***************************************************************************)
\* The elements of a list.
Range(s) == {s[i] : i \in 1 .. Len(s)}

RedSet(op) == {v \in DOMAIN op : op[v] = "Red"}

BlueSet(op) == {v \in DOMAIN op : op[v] = "Blue"}

Nbrs(v) == {u \in 1 .. G.n : u # v /\ {u, v} \in G.edges}

RedNbrs(op, v) == Nbrs(v) \cap RedSet(op)

BlueNbrs(op, v) == Nbrs(v) \cap BlueSet(op)

\* The label the reversible majority-vote rule gives v from labeling op.
VoteOf(op, v) ==
    IF Cardinality(RedNbrs(op, v)) > Cardinality(BlueNbrs(op, v)) THEN "Red"
    ELSE IF Cardinality(BlueNbrs(op, v)) > Cardinality(RedNbrs(op, v))
         THEN "Blue"
    ELSE op[v]

VoteFixedPoint(op) == \A v \in 1 .. G.n : VoteOf(op, v) = op[v]

\* Strictly more than phi of v's neighbours are Minority.
OverThreshold(op, v) ==
    PhiDen * Cardinality(RedNbrs(op, v)) > PhiNum * Cardinality(Nbrs(v))

\* The nodes whose strict local majority differs from label gmaj.
IllusionSet(op, gmaj) ==
    {v \in 1 .. G.n :
        /\ Nbrs(v) # {}
        /\ Cardinality(RedNbrs(op, v)) # Cardinality(BlueNbrs(op, v))
        /\ (IF Cardinality(RedNbrs(op, v)) > Cardinality(BlueNbrs(op, v))
            THEN "Red" ELSE "Blue") # gmaj}

\* The label with strictly more nodes, Majority on a tie.
GlobalOf(op) ==
    IF Cardinality(RedSet(op)) > Cardinality(BlueSet(op)) THEN "Red"
    ELSE "Blue"

Simulating == pc \in {"static", "loop", "visit", "done", "reported"}

\* C1: under the one-way threshold rule a Minority node stays Minority from
\* one round to the next, so the number of Minority nodes never decreases,
\* and in a round a Majority node becomes Minority iff strictly more than
\* phi times its degree of its neighbours are Minority.
C1_OneWay ==
    [][(rule = "threshold" /\ Simulating) =>
         /\ \A v \in 1 .. G.n : opinions[v] = "Red" => opinions'[v] = "Red"
         /\ Cardinality(RedSet(opinions')) >= Cardinality(RedSet(opinions))
         /\ (pc = "loop" =>
               \A v \in 1 .. G.n :
                  opinions[v] = "Blue" =>
                     (opinions'[v] = "Red" <=> OverThreshold(opinions, v)))]_vars

\* Two rounds of the threshold rule each turned a Majority node.
C1_Witness ==
    /\ rule = "threshold"
    /\ pc = "done"
    /\ Len(illusion_series) = 3
    /\ BlueSet(opinions) = {}

\* C2: the one-way threshold loop, on a graph of N >= 1 nodes (N below the
\* round cap, so that the cap never ends it), halts on a round without a
\* label change after at most N rounds: the series never has more than N
\* entries, the loop is not still running after N rounds, and the labeling
\* returned is one no Majority node would leave.
C2_HaltsWithinN ==
    rule = "threshold" =>
        /\ Len(illusion_series) <= G.n
        /\ (pc = "loop" => Len(illusion_series) < G.n)
        /\ (pc \in {"done", "reported"} =>
              /\ halt = "converged"
              /\ Len(ret[1]) <= G.n
              /\ \A v \in BlueSet(opinions) : ~OverThreshold(opinions, v))

\* Two nodes: the second round is the change-free one, N rounds in all.
C2_Witness ==
    /\ rule = "threshold"
    /\ pc = "done"
    /\ G.n = 2
    /\ Len(illusion_series) = 2
    /\ halt = "converged"

\* C3: the reversible majority-vote loop halts in the round whose next
\* labeling equals the current one, appending that round's entry and no
\* further one, and then returns a fixed point of the rule; a run that no
\* such round ends stops after exactly max_rounds iterations.
C3_HaltsAtFixedPoint ==
    /\ [](rule = "majority" /\ pc \in {"done", "reported"} =>
            /\ halt \in {"converged", "cap"}
            /\ (halt = "converged" => VoteFixedPoint(ret[2]))
            /\ (halt = "cap" => Len(ret[1]) = max_rounds))
    /\ [][rule = "majority" =>
            /\ (pc = "loop" /\ VoteFixedPoint(opinions) =>
                  /\ pc' = "done"
                  /\ halt' = "converged"
                  /\ opinions' = opinions
                  /\ Len(illusion_series') = Len(illusion_series) + 1)
            /\ (pc \in {"done", "reported"} =>
                  illusion_series' = illusion_series /\ opinions' = opinions)]_vars

\* A run that changed labels in its first round and converged later.
C3_Witness ==
    /\ rule = "majority"
    /\ pc = "done"
    /\ halt = "converged"
    /\ Len(illusion_series) >= 2
    /\ Len(illusion_series) < max_rounds

\* Two adjacent nodes with opposite labels and no other node.
OppositePair(op) ==
    /\ G.n = 2
    /\ G.edges = {{1, 2}}
    /\ op[1] # op[2]

\* C9: under reversible majority vote a round that changes a label never
\* ends the run before max_rounds rounds are done (two adjacent nodes with
\* opposite labels swap them in every round), so a run without a
\* change-free round does exactly max_rounds rounds and returns exactly
\* max_rounds entries; what is returned is the series and the labeling and
\* nothing else, whether a change-free round or the cap ended the run.
C9_OscillationRunsToCap ==
    /\ [](rule = "majority" /\ pc \in {"done", "reported"} =>
            /\ Len(ret) = 2
            /\ ret = <<illusion_series, opinions>>
            /\ (halt = "cap" => Len(illusion_series) = max_rounds))
    /\ [][rule = "majority" /\ pc = "loop" /\ ~VoteFixedPoint(opinions) =>
            /\ opinions' = [v \in 1 .. G.n |-> VoteOf(opinions, v)]
            /\ Len(illusion_series') = Len(illusion_series) + 1
            /\ (Len(illusion_series') < max_rounds => pc' = "loop")
            /\ (Len(illusion_series') = max_rounds =>
                  pc' = "done" /\ halt' = "cap")
            /\ (OppositePair(opinions) =>
                  /\ opinions'[1] = opinions[2]
                  /\ opinions'[2] = opinions[1])]_vars

\* The pair of opposite labels has run to the cap.
C9_Witness ==
    /\ rule = "majority"
    /\ pc = "done"
    /\ halt = "cap"
    /\ OppositePair(opinions)
    /\ Len(ret[1]) = max_rounds

\* C10: the final illusion count of a run, the last entry of the returned
\* series, which main reports and the batch stores in the trial record, is
\* the size of the illusion set of the labeling the simulator returned.
C10_FinalCountOfFinalLabeling ==
    /\ (pc = "reported" =>
           final = Cardinality(IllusionSet(ret[2], GlobalOf(ret[2]))))
    /\ (pc = "recorded" =>
           records[Len(records)].final =
               Cardinality(IllusionSet(ret[2], GlobalOf(ret[2]))))

\* Python's round(p / q) for p >= 0: to the nearest integer, a half to even.
RoundOf(p, q) ==
    LET f == p \div q
        r == p % q
    IN IF 2 * r < q THEN f
       ELSE IF 2 * r > q THEN f + 1
       ELSE IF f % 2 = 0 THEN f ELSE f + 1

FracInRange == frac[1] >= 0 /\ frac[1] <= frac[2]

Assigned == pc \in {"static", "loop", "done", "recorded"}

\* C4: for a fraction in [0, 1] the labeling the cap-or-fill block produces
\* has exactly round(fraction * N) Minority nodes and every other node is
\* Majority.
C4_ExactRoundedTarget ==
    (pc = "static" /\ FracInRange) =>
        /\ Cardinality(RedSet(opinions)) = RoundOf(frac[1] * G.n, frac[2])
        /\ RedSet(opinions) \cup BlueSet(opinions) = 1 .. G.n

\* C6: a negative fraction, or one greater than 1, aborts the computation:
\* no labeling, no illusion count and no trial record comes of it.
C6_BadFractionAborts ==
    ~FracInRange =>
        /\ pc \in {"identify", "assign", "aborted"}
        /\ records = <<>>

\* A cycle on four nodes.
Cycle4 ==
    /\ G.n = 4
    /\ Cardinality(G.edges) = 4
    /\ \A v \in 1 .. 4 : Cardinality(Nbrs(v)) = 2

\* A star on five nodes with centre c.
Star5(c) ==
    /\ G.n = 5
    /\ G.edges = {{c, v} : v \in (1 .. 5) \ {c}}

\* Adjacent nodes carry different labels.
Alternating(op) == \A e \in G.edges : \A u, v \in e : u # v => op[u] # op[v]

\* Every node has one neighbour of each label.
EvenlySplit(op) ==
    \A v \in 1 .. G.n :
        Cardinality(RedNbrs(op, v)) = Cardinality(BlueNbrs(op, v))

\* The detector's answer: v is returned iff it has a neighbour, its two
\* neighbour counts differ and its strict local majority is not the
\* returned global majority; each returned node is listed once.
IllusionSetExact ==
    /\ Range(illusion_nodes) = IllusionSet(opinions, gm)
    /\ Len(illusion_nodes) = Cardinality(Range(illusion_nodes))
    /\ \A v \in Range(illusion_nodes) :
          /\ Nbrs(v) # {}
          /\ Cardinality(RedNbrs(opinions, v))
                 # Cardinality(BlueNbrs(opinions, v))

StarOfFour ==
    \A c \in 1 .. 5 :
        (Star5(c) /\ RedSet(opinions) = {c}) =>
            Range(illusion_nodes) = (1 .. 5) \ {c}

\* C5 as stated: the characterisation, the star that gives its four
\* leaves, and the 4-cycle with alternating labels that gives the empty set.
C5_AsStated ==
    pc = "detected" =>
        /\ IllusionSetExact
        /\ StarOfFour
        /\ (Cycle4 /\ Alternating(opinions)
               /\ Cardinality(RedSet(opinions)) = 2 =>
                  illusion_nodes = <<>>)

\* C5, amended: the characterisation and the star as stated; on the 4-cycle
\* with alternating labels each node's two neighbours carry the same label
\* and the 2-2 global tie resolves to Majority, so the set is the two
\* Majority nodes; the set is empty on the 4-cycle labelled so that every
\* node has one neighbour of each label.
C5_IllusionSet ==
    pc = "detected" =>
        /\ IllusionSetExact
        /\ StarOfFour
        /\ (Cycle4 /\ Alternating(opinions)
               /\ Cardinality(RedSet(opinions)) = 2 =>
                  Range(illusion_nodes) = BlueSet(opinions))
        /\ (Cycle4 /\ EvenlySplit(opinions) => illusion_nodes = <<>>)

\* The 4-cycle with alternating labels, detected: two nodes are returned.
C5_Witness ==
    /\ pc = "detected"
    /\ Cycle4
    /\ Alternating(opinions)
    /\ Cardinality(RedSet(opinions)) = 2
    /\ Len(illusion_nodes) = 2

\* C7: in both files the global majority returned is Minority iff there are
\* strictly more Minority than Majority nodes; with equal counts it is
\* Majority.
C7_GlobalTieIsMajority ==
    pc = "detected" =>
        /\ (gm = "Red" <=>
              Cardinality(RedSet(opinions)) > Cardinality(BlueSet(opinions)))
        /\ (Cardinality(RedSet(opinions)) = Cardinality(BlueSet(opinions)) =>
              gm = "Blue")
        /\ gm = static_majority_illusion(G, opinions)[1]
        /\ gm = ba_static_majority_illusion(G, opinions)[1]

\* ba.py's detector has answered on a labeling with equal counts.
C7_Witness ==
    /\ pc = "detected"
    /\ rule = "threshold"
    /\ G.n = 4
    /\ Cardinality(RedSet(opinions)) = 2
    /\ gm = "Blue"

\* C8: while the nodes are visited, in any order, each label written for
\* the next round is the rule's label computed from the labeling at the
\* start of the round, and once all are visited every node has one.
C8_SynchronousUpdate ==
    pc = "visit" =>
        /\ \A v \in visited :
              /\ v \in DOMAIN new_op
              /\ new_op[v] =
                    IF rule = "majority" THEN VoteOf(opinions, v)
                    ELSE IF opinions[v] = "Blue" /\ OverThreshold(opinions, v)
                         THEN "Red"
                    ELSE opinions[v]
        /\ (visited = 1 .. G.n =>
              /\ DOMAIN new_op = 1 .. G.n
              /\ new_op = (IF rule = "majority"
                           THEN majority_update(G, opinions)
                           ELSE threshold_update(G, opinions)))

\* All three nodes of a graph are visited and a label has changed.
C8_Witness ==
    /\ pc = "visit"
    /\ rule = "majority"
    /\ G.n = 3
    /\ visited = 1 .. 3
    /\ new_op # opinions

====
